---- MODULE Spec2Model ----
(***************************************************************************)
(* A model of dfufile-rs: the DFU / DfuSe container parser                 *)
(* (src/src/lib.rs, src/src/dfuse.rs).                                     *)
(*                                                                         *)
(* A file is a sequence of bytes (0..255).  DfuFile::open is modelled as a *)
(* state machine whose steps are the parsing stages of the code; the       *)
(* operations of an opened file (calc_crc, find_image_by_alt, read_at) are *)
(* further actions.  32-bit quantities whose high bit may be set (the CRC  *)
(* accumulator, a wrapped subtraction) are kept as two 16-bit limbs        *)
(* [hi, lo], so that their width is exact.                                 *)
(***************************************************************************)
EXTENDS Integers, Sequences, FiniteSets, TLC

(***************************************************************************)
(* Program constants.                                                      *)
(***************************************************************************)
SUFFIX_LENGTH == 16
PREFIX_LENGTH == 11
TARGET_PREFIX_LENGTH == 274
IMAGE_ELEMENT_LENGTH == 8
CHUNK_SIZE == 1024
\* Start and end (exclusive) of the name region inside a target prefix.
NAME_START == 11
NAME_END == 266
\* The length used for the name when no null character is found.
NAME_MAX == 255
\* bcdDFU of a DfuSe file, 0x011A.
DFUSE_BCD == 282

\* "DfuSe", "Target", "UFD" as bytes.
SigDfuSe == <<68, 102, 117, 83, 101>>
SigTarget == <<84, 97, 114, 103, 101, 116>>
SigUFD == <<85, 70, 68>>

(***************************************************************************)
(* Bytes and little-endian integers.                                       *)
(***************************************************************************)
Min(a, b) == IF a <= b THEN a ELSE b

\* buffer[lo..hi) with 0-based offsets, as Rust slices.
Slice(buffer, lo, hi) == SubSeq(buffer, lo + 1, hi)

\* u16::from_le_bytes
U16FromLe(b) == b[1] + 256 * b[2]

\* u32::from_le_bytes (the model's inputs keep the top byte below 128)
U32FromLe(b) == b[1] + 256 * b[2] + 65536 * b[3] + 16777216 * b[4]

(***************************************************************************)
(* 32-bit words as two 16-bit limbs.                                       *)
(***************************************************************************)
W32(h, l) == [hi |-> h, lo |-> l]
ToW32(n) == W32(n \div 65536, n % 65536)
W32Zero == W32(0, 0)
W32Ones == W32(65535, 65535)

\* a < b on words
W32Less(a, b) == a.hi < b.hi \/ (a.hi = b.hi /\ a.lo < b.lo)

\* a.wrapping_sub(b) on u32
W32WrappingSub(a, b) ==
  LET borrow == IF a.lo < b.lo THEN 1 ELSE 0
  IN  W32((a.hi - b.hi - borrow) % 65536, (a.lo - b.lo) % 65536)

\* Exclusive or of two bytes, bit by bit.
RECURSIVE XorBits(_, _, _)
XorBits(a, b, n) ==
  IF n = 0 THEN 0
  ELSE ((a + b) % 2) + 2 * XorBits(a \div 2, b \div 2, n - 1)

Xor8Table == [a \in 0..255 |-> [b \in 0..255 |-> XorBits(a, b, 8)]]
Xor8(a, b) == Xor8Table[a][b]
Xor16(a, b) == 256 * Xor8(a \div 256, b \div 256) + Xor8(a % 256, b % 256)
W32Xor(a, b) == W32(Xor16(a.hi, b.hi), Xor16(a.lo, b.lo))
W32Shr1(a) == W32(a.hi \div 2, (a.hi % 2) * 32768 + a.lo \div 2)
W32Shr8(a) == W32(a.hi \div 256, (a.hi % 256) * 256 + a.lo \div 256)

(***************************************************************************)
(* CRC32 engine (crc32::crc32): reflected CRC-32, polynomial 0xEDB88320,   *)
(* table driven, the accumulator complemented on entry and on exit.        *)
(***************************************************************************)
CRC_POLY == W32(60856, 33568)

RECURSIVE CrcTableEntry(_, _)
CrcTableEntry(c, n) ==
  IF n = 0 THEN c
  ELSE CrcTableEntry(IF c.lo % 2 = 1 THEN W32Xor(W32Shr1(c), CRC_POLY)
                                     ELSE W32Shr1(c), n - 1)

CRC32_TABLE == [i \in 0..255 |-> CrcTableEntry(W32(0, i), 8)]

\* One byte folded into the (complemented) accumulator.
CrcStep(c, byte) == W32Xor(CRC32_TABLE[Xor8(c.lo % 256, byte)], W32Shr8(c))

\* The bytes buffer[lo..hi] (1-based, inclusive) folded in order.
RECURSIVE CrcFold(_, _, _, _)
CrcFold(c, buffer, lo, hi) ==
  IF c.lo < 0 \/ lo > hi THEN c
  ELSE IF lo = hi THEN CrcStep(c, buffer[lo])
  ELSE LET mid == (lo + hi) \div 2
       IN  CrcFold(CrcFold(c, buffer, lo, mid), buffer, mid + 1, hi)

\* Mutant: the accumulator is not complemented on exit.
Crc32NoExitComplement(buffer, crc) ==
  CrcFold(W32Xor(crc, W32Ones), buffer, 1, Len(buffer))

\* crc32(buffer, crc)
Crc32(buffer, crc) ==
  W32Xor(CrcFold(W32Xor(crc, W32Ones), buffer, 1, Len(buffer)), W32Ones)

(***************************************************************************)
(* String::from_utf8_lossy.  A Rust String is its UTF-8 bytes; the lossy   *)
(* decoding keeps every well-formed character and replaces every maximal   *)
(* ill-formed byte sequence by U+FFFD, that is by the bytes EF BF BD.      *)
(***************************************************************************)
REPLACEMENT == <<239, 191, 189>>

\* safe_get: the byte at 1-based index i, or 0 past the end.
At(b, i) == IF i <= Len(b) THEN b[i] ELSE 0

\* A continuation byte, 0x80..0xBF.
IsCont(x) == 128 <= x /\ x <= 191

\* utf8_char_width of a byte >= 0x80.
Utf8Width(x) ==
  IF 194 <= x /\ x <= 223 THEN 2
  ELSE IF 224 <= x /\ x <= 239 THEN 3
  ELSE IF 240 <= x /\ x <= 244 THEN 4
  ELSE 0

\* The second byte a three-byte lead admits.
Second3Ok(x, y) ==
  \/ x = 224 /\ 160 <= y /\ y <= 191
  \/ 225 <= x /\ x <= 236 /\ IsCont(y)
  \/ x = 237 /\ 128 <= y /\ y <= 159
  \/ 238 <= x /\ x <= 239 /\ IsCont(y)

\* The second byte a four-byte lead admits.
Second4Ok(x, y) ==
  \/ x = 240 /\ 144 <= y /\ y <= 191
  \/ 241 <= x /\ x <= 243 /\ IsCont(y)
  \/ x = 244 /\ 128 <= y /\ y <= 143

\* The chunk that starts at index s: its length in bytes and whether it is
\* a well-formed character (else it is a maximal ill-formed sequence).
Utf8Chunk(b, s) ==
  LET x == b[s]
      w == Utf8Width(x)
      C(n, v) == [len |-> n, valid |-> v]
  IN  IF x < 128 THEN C(1, TRUE)
      ELSE IF w = 2 THEN
        IF IsCont(At(b, s + 1)) THEN C(2, TRUE) ELSE C(1, FALSE)
      ELSE IF w = 3 THEN
        IF ~Second3Ok(x, At(b, s + 1)) THEN C(1, FALSE)
        ELSE IF ~IsCont(At(b, s + 2)) THEN C(2, FALSE)
        ELSE C(3, TRUE)
      ELSE IF w = 4 THEN
        IF ~Second4Ok(x, At(b, s + 1)) THEN C(1, FALSE)
        ELSE IF ~IsCont(At(b, s + 2)) THEN C(2, FALSE)
        ELSE IF ~IsCont(At(b, s + 3)) THEN C(3, FALSE)
        ELSE C(4, TRUE)
      ELSE C(1, FALSE)

\* Whether the decoder starts a chunk at index i.  A byte that is not a
\* continuation byte always starts one; a continuation byte does unless the
\* chunk of one of the three bytes before it reaches over it.
Utf8IsStart(b, i) ==
  \/ ~IsCont(b[i])
  \/ ~\E s \in (i - 3)..(i - 1) : s >= 1 /\ s + Utf8Chunk(b, s).len > i

\* What the bytes at index i contribute to the decoded string.
Utf8Piece(b, i) ==
  IF ~Utf8IsStart(b, i) THEN <<>>
  ELSE LET c == Utf8Chunk(b, i)
       IN  IF c.valid THEN SubSeq(b, i, i + c.len - 1) ELSE REPLACEMENT

RECURSIVE Utf8Concat(_, _, _)
Utf8Concat(b, lo, hi) ==
  IF lo > hi THEN <<>>
  ELSE IF lo = hi THEN Utf8Piece(b, lo)
  ELSE LET mid == (lo + hi) \div 2
       IN  Utf8Concat(b, lo, mid) \o Utf8Concat(b, mid + 1, hi)

\* String::from_utf8_lossy(b), as the bytes of the resulting String.
FromUtf8Lossy(b) == Utf8Concat(b, 1, Len(b))

\* str::find('\x00'): the 0-based byte index of the first null character, or
\* -1 for None.
FindNul(s) ==
  IF \E k \in 1..Len(s) : s[k] = 0
  THEN (CHOOSE k \in 1..Len(s) : s[k] = 0 /\ \A j \in 1..(k - 1) : s[j] # 0) - 1
  ELSE -1

\* str::is_char_boundary(index), index 0-based.
IsCharBoundary(s, index) ==
  IF index = 0 THEN TRUE
  ELSE IF index >= Len(s) THEN index = Len(s)
  ELSE ~IsCont(s[index + 1])

(***************************************************************************)
(* The decoders of the fixed-layout records.                               *)
(***************************************************************************)
\* u32::from_le_bytes kept as a 32-bit word (used for dwCRC, any value).
W32FromLe(b) == W32(b[3] + 256 * b[4], b[1] + 256 * b[2])

\* Mutant: idProduct and idVendor are taken from each other's offsets.
SuffixFromBytesSwapped(buffer) ==
  [bcdDevice |-> U16FromLe(Slice(buffer, 0, 2)),
   idProduct |-> U16FromLe(Slice(buffer, 4, 6)),
   idVendor |-> U16FromLe(Slice(buffer, 2, 4)),
   bcdDFU |-> U16FromLe(Slice(buffer, 6, 8)),
   ucDFUSignature |-> FromUtf8Lossy(Slice(buffer, 8, 11)),
   bLength |-> buffer[12],
   dwCRC |-> W32FromLe(Slice(buffer, 12, 16))]

\* Suffix::from_bytes
SuffixFromBytes(buffer) ==
  [bcdDevice |-> U16FromLe(Slice(buffer, 0, 2)),
   idProduct |-> U16FromLe(Slice(buffer, 2, 4)),
   idVendor |-> U16FromLe(Slice(buffer, 4, 6)),
   bcdDFU |-> U16FromLe(Slice(buffer, 6, 8)),
   ucDFUSignature |-> FromUtf8Lossy(Slice(buffer, 8, 11)),
   bLength |-> buffer[12],
   dwCRC |-> W32FromLe(Slice(buffer, 12, 16))]

\* dfuse::Prefix::from_bytes
PrefixFromBytes(buffer) ==
  [szSignature |-> FromUtf8Lossy(Slice(buffer, 0, 5)),
   bVersion |-> buffer[6],
   DFUImageSize |-> U32FromLe(Slice(buffer, 6, 10)),
   bTargets |-> buffer[11]]

\* The name of a target: the lossy text of the name region cut at the byte
\* index of its first null character, or at 255 when it has none.  The cut
\* is a string slice [0..len], which panics when len is past the end of the
\* string or inside a character.
TargetName(buffer) ==
  LET target_name_full == FromUtf8Lossy(Slice(buffer, NAME_START, NAME_END))
      found == FindNul(target_name_full)
      target_name_len == IF found = -1 THEN NAME_MAX ELSE found
  IN  IF target_name_len <= Len(target_name_full)
         /\ IsCharBoundary(target_name_full, target_name_len)
      THEN [panic |-> FALSE, name |-> SubSeq(target_name_full, 1, target_name_len)]
      ELSE [panic |-> TRUE, name |-> <<>>]

\* dfuse::TargetPrefix::from_bytes
TargetPrefixFromBytes(buffer) ==
  LET n == TargetName(buffer)
  IN  [panic |-> n.panic,
       data |-> [szSignature |-> FromUtf8Lossy(Slice(buffer, 0, 6)),
                 bAlternateSetting |-> buffer[7],
                 bTargetNamed |-> buffer[8],
                 szTargetName |-> n.name,
                 dwTargetSize |-> U32FromLe(Slice(buffer, 266, 270)),
                 dwNbElements |-> U32FromLe(Slice(buffer, 270, 274))]]

\* dfuse::ImageElement::from_bytes
ImageElementFromBytes(buffer, data_position) ==
  [dwElementAddress |-> U32FromLe(Slice(buffer, 0, 4)),
   dwElementSize |-> U32FromLe(Slice(buffer, 4, 8)),
   data_position |-> data_position]

(***************************************************************************)
(* File access.                                                            *)
(***************************************************************************)
\* Read::read_exact of n bytes at the cursor: all n bytes, or an I/O error
\* (UnexpectedEof) when fewer remain.
ReadExact(f, cur, n) ==
  IF cur + n <= Len(f)
  THEN [ok |-> TRUE, buf |-> SubSeq(f, cur + 1, cur + n), cursor |-> cur + n]
  ELSE [ok |-> FALSE, buf |-> <<>>, cursor |-> Len(f)]

\* One entry of the history of reads: who read how many bytes where.
ReadEv(who, at, n) == [who |-> who, at |-> at, n |-> n]

Ok == [kind |-> "Ok", err |-> ""]
Err(e) == [kind |-> "Err", err |-> e]
Panic == [kind |-> "Panic", err |-> ""]
Pending == [kind |-> "Pending", err |-> ""]

\* Mutant: the signature is compared with "DFU", not reversed.
SuffixSignatureForward(data) == data.ucDFUSignature = <<68, 70, 85>>

\* The signature check of Suffix::from_file.
SuffixSignatureOk(data) == data.ucDFUSignature = SigUFD

\* Suffix::from_file: seek to 16 bytes before the end (an I/O error when that
\* is before the start), read, decode, check the signature.
SuffixFromFile(f) ==
  LET at == Len(f) - SUFFIX_LENGTH
      r == ReadExact(f, at, SUFFIX_LENGTH)
      data == SuffixFromBytes(r.buf)
  IN  IF at < 0 \/ ~r.ok
      THEN [res |-> Err("Io"), data |-> <<>>, cursor |-> Len(f),
            ev |-> ReadEv("Suffix", at, SUFFIX_LENGTH)]
      ELSE [res |-> IF SuffixSignatureOk(data) THEN Ok
                    ELSE Err("InvalidSuffixSignature"),
            data |-> data, cursor |-> r.cursor,
            ev |-> ReadEv("Suffix", at, SUFFIX_LENGTH)]

(***************************************************************************)
(* Bounds of the model.                                                    *)
(***************************************************************************)
\* Images written into a generated DfuSe file: 0..MaxTargets.
MaxTargets == 2
\* Alternate settings used by the generated images and by lookups: 0..MaxAlt.
MaxAlt == 1
\* Elements per generated image: 0..MaxElements.
MaxElements == 2
\* Payload sizes of the generated elements: 0..MaxElemSize.
MaxElemSize == 3
\* read_at: relative positions 0..MaxPosition, buffers of 0..MaxBuf bytes.
MaxPosition == 4
MaxBuf == 3
\* Plain files are generated with bodies of up to MaxChunks CRC chunks.
MaxChunks == 2
\* crc32 alone is fed buffers of 0..MaxCrcLen bytes in up to MaxCalls calls.
MaxCrcLen == 4
MaxCalls == 3

(***************************************************************************)
(* The files the model opens.  A file is written from the record layouts   *)
(* the decoders read: prefix, images (target prefix and elements), suffix. *)
(***************************************************************************)
Bytes(n, b) == [i \in 1..n |-> b]
LE16(n) == <<n % 256, n \div 256>>
LE32(n) == <<n % 256, (n \div 256) % 256, (n \div 65536) % 256, n \div 16777216>>

\* A suffix: bcdDevice, idProduct, idVendor, bcdDFU, signature, bLength, dwCRC.
MkSuffix(sig, bcd) ==
  LE16(512) \o LE16(22336) \o LE16(1155) \o LE16(bcd) \o sig \o <<16>>
    \o <<120, 86, 52, 146>>

\* A prefix: signature, bVersion, DFUImageSize, bTargets.
MkPrefix(sig, targets) == sig \o <<1>> \o LE32(0) \o <<targets>>

\* The 255-byte name region of a target prefix, in four kinds:
\*   "nul"     a short name, a null byte, then non-zero garbage
\*   "full"    255 letters and no null byte
\*   "cut"     no null byte, an ill-formed byte first
\*   "split"   no null byte, ill-formed bytes last
NameRegion(kind, k) ==
  IF kind = "nul" THEN <<77, 97, 105, 110, 48 + k, 0>> \o Bytes(NAME_MAX - 6, 255)
  ELSE IF kind = "full" THEN Bytes(NAME_MAX, 65)
  ELSE IF kind = "cut" THEN <<255>> \o Bytes(NAME_MAX - 1, 65)
  ELSE Bytes(NAME_MAX - 2, 65) \o <<255, 255>>

\* A target prefix: signature, bAlternateSetting, bTargetNamed, 3 unused
\* bytes, name region, dwTargetSize, dwNbElements.
MkTargetPrefix(sig, alt, name, size, elements) ==
  sig \o <<alt, 1, 0, 0, 0>> \o name \o LE32(size) \o LE32(elements)

\* An element: dwElementAddress, dwElementSize, payload.
MkElement(address, size, payload) == LE32(address) \o LE32(size) \o payload

\* The shape of a generated DfuSe file: n images; image k has alternate
\* setting ImgAlt and ImgElements elements; element j of image k carries
\* ElemSize payload bytes.
Shapes ==
  {[n |-> 0, p |-> 0, q |-> 0]} \cup
  {[n |-> n, p |-> p, q |-> q] : n \in 1..MaxTargets, p \in 0..1, q \in 0..MaxElements}

ImgAlt(sh, k) == ((k - 1) * sh.p) % (MaxAlt + 1)
ImgElements(sh, k) == (sh.q + k - 1) % (MaxElements + 1)
ElemSize(k, j) == (k + 2 * j) % (MaxElemSize + 1)
ElemPayload(k, j) == [i \in 1..ElemSize(k, j) |-> 16 * k + 4 * j + i]

\* What is wrong or unusual about a generated file, at image `at`.
Defects(sh) ==
  {[kind |-> "none", at |-> 0],
   [kind |-> "suffix signature", at |-> 0],
   [kind |-> "not DfuSe bcdDFU", at |-> 0],
   [kind |-> "not DfuSe signature", at |-> 0],
   [kind |-> "extra target", at |-> 0]} \cup
  {[kind |-> d, at |-> k] :
     d \in {"target signature", "target signature and split name",
            "split name", "cut name", "full name", "extra element"},
     k \in 1..sh.n}

RECURSIVE ElementsBytes(_, _, _)
ElementsBytes(k, j, n) ==
  IF j > n THEN <<>>
  ELSE MkElement(134217728 + 256 * j, ElemSize(k, j), ElemPayload(k, j))
         \o ElementsBytes(k, j + 1, n)

ImageBytes(sh, d, k) ==
  LET here == d.at = k
      sig == IF here /\ d.kind \in {"target signature",
                                     "target signature and split name"}
             THEN <<84, 97, 114, 103, 101, 84>> ELSE SigTarget
      name == IF here /\ d.kind \in {"split name", "target signature and split name"}
              THEN NameRegion("split", k)
              ELSE IF here /\ d.kind = "cut name" THEN NameRegion("cut", k)
              ELSE IF here /\ d.kind = "full name" THEN NameRegion("full", k)
              ELSE NameRegion("nul", k)
      n == ImgElements(sh, k)
      declared == IF here /\ d.kind = "extra element" THEN n + 1 ELSE n
  IN  MkTargetPrefix(sig, ImgAlt(sh, k), name, 0, declared) \o ElementsBytes(k, 1, n)

RECURSIVE ImagesBytes(_, _, _)
ImagesBytes(sh, d, k) ==
  IF k > sh.n THEN <<>> ELSE ImageBytes(sh, d, k) \o ImagesBytes(sh, d, k + 1)

DfuSeFile(sh, d) ==
  MkPrefix(IF d.kind = "not DfuSe signature" THEN <<68, 102, 117, 115, 101>>
           ELSE SigDfuSe,
           IF d.kind = "extra target" THEN sh.n + 1 ELSE sh.n)
    \o ImagesBytes(sh, d, 1)
    \o MkSuffix(IF d.kind = "suffix signature" THEN <<68, 70, 85>> ELSE SigUFD,
                IF d.kind = "not DfuSe bcdDFU" THEN 256 ELSE DFUSE_BCD)

DfuSeFiles == UNION {{DfuSeFile(sh, d) : d \in Defects(sh)} : sh \in Shapes}

\* The first n and the last n bytes of a sequence.
FirstBytes(b, n) == SubSeq(b, 1, n)
LastBytes(b, n) == SubSeq(b, Len(b) - n + 1, Len(b))

\* Files too short for a suffix: cuts of a DfuSe start and of a valid suffix.
ShortFiles ==
  {FirstBytes(SigDfuSe \o MkSuffix(SigUFD, DFUSE_BCD), n) : n \in 0..(SUFFIX_LENGTH - 1)}
    \cup {LastBytes(MkSuffix(SigUFD, DFUSE_BCD), n) : n \in 0..(SUFFIX_LENGTH - 1)}

\* The body of a plain file: n bytes, starting with "DfuSe" when asked to.
\* The bytes stay below 128, so that any four of them decode to a u32 below
\* 2^31.
Body(n, dfuse) ==
  [i \in 1..n |-> IF dfuse /\ i <= 5 THEN SigDfuSe[i] ELSE (7 * i + 3) % 128]

\* Body lengths: a few short ones, and those that make the checksummed part
\* (body plus 12 bytes of suffix) end just before, at and just after a
\* multiple of the chunk size.
BodyLens ==
  {0, 5, 11, 20} \cup
  {k * CHUNK_SIZE - 12 + d : k \in 1..MaxChunks, d \in {-1, 0, 1}}

SuffixSigs == {SigUFD, <<68, 70, 85>>, <<85, 70, 255>>, <<85, 70, 100>>}

PlainFiles ==
  {Body(n, dfuse) \o MkSuffix(sig, bcd) :
     n \in BodyLens, dfuse \in BOOLEAN, sig \in SuffixSigs, bcd \in {256, DFUSE_BCD}}

\* A file of exactly 16 bytes whose suffix starts with "DfuSe".
OverlapFile == SigDfuSe \o <<0>> \o LE16(DFUSE_BCD) \o SigUFD \o <<16, 1, 2, 3, 4>>

Files == ShortFiles \cup PlainFiles \cup DfuSeFiles \cup {OverlapFile}

(***************************************************************************)
(* State.                                                                  *)
(***************************************************************************)
VARIABLES
  file,            \* the bytes of the file on disk
  cursor,          \* the position of the open file handle
  pc,              \* where the program is
  file_pos,        \* Content::from_file: the running offset of the parse
  prefix,          \* Content::from_file: the parsed prefix
  images,          \* Content::from_file: the images parsed so far
  target_prefix,   \* Image::from_file: the target prefix of the current image
  image_elements,  \* Image::from_file: the elements parsed so far
  content,         \* DfuFile.content
  suffix,          \* DfuFile.suffix
  result,          \* what DfuFile::open returned
  log,             \* history: the reads DfuFile::open made, in order
  crc,             \* calc_crc: the accumulator
  crc_file_pos,    \* calc_crc: file_pos
  chunks,          \* history: the reads of the running or last calc_crc
  ret              \* what the last operation on the opened file returned

vars == <<file, cursor, pc, file_pos, prefix, images, target_prefix,
          image_elements, content, suffix, result, log, crc, crc_file_pos,
          chunks, ret>>

None == [some |-> FALSE]
Some(v) == [some |-> TRUE, val |-> v]

ContentPlain == [kind |-> "Plain", prefix |-> None, images |-> <<>>]
ContentDfuSe(p, imgs) == [kind |-> "DfuSe", prefix |-> Some(p), images |-> imgs]

NoRet == [op |-> "", args |-> <<>>, res |-> Pending, value |-> 0]

\* The state before DfuFile::open is called on file f.
Start(f) ==
  /\ file = f
  /\ cursor = 0
  /\ file_pos = 0
  /\ prefix = None
  /\ images = <<>>
  /\ target_prefix = None
  /\ image_elements = <<>>
  /\ content = None
  /\ suffix = None
  /\ result = Pending
  /\ log = <<>>
  /\ crc = W32Zero
  /\ crc_file_pos = 0
  /\ chunks = <<>>
  /\ ret = NoRet

Init == \E f \in Files : Start(f) /\ pc = "open"

(***************************************************************************)
(* DfuFile::open.                                                          *)
(***************************************************************************)
parse_locals == <<file_pos, prefix, images, target_prefix, image_elements>>
op_locals == <<crc, crc_file_pos, chunks, ret>>

\* open returns an error (or panics): no DfuFile exists.
Fail(r) ==
  /\ result' = r
  /\ pc' = "failed"
  /\ UNCHANGED <<content, suffix>>

\* Mutant: the size check is off by one.
TooSmallOffByOne(file_size) == file_size < SUFFIX_LENGTH - 1

\* The size check of DfuFile::open.
TooSmall(file_size) == file_size < SUFFIX_LENGTH

\* The file is opened and measured; a file shorter than a suffix is refused.
OpenFile ==
  /\ pc = "open"
  /\ cursor' = Len(file)
  /\ IF TooSmall(Len(file))
     THEN Fail(Err("InsufficientFileSize"))
     ELSE pc' = "detect" /\ UNCHANGED <<result, content, suffix>>
  /\ UNCHANGED <<file, log, parse_locals, op_locals>>

\* Mutant: one of the two marks is enough.
IsDfuSeEither(signature, sfx) == signature = SigDfuSe \/ sfx.bcdDFU = DFUSE_BCD

\* The decision of dfuse::detect on the 5 signature bytes and the suffix.
IsDfuSe(signature, sfx) == signature = SigDfuSe /\ sfx.bcdDFU = DFUSE_BCD

\* dfuse::detect: the first 5 bytes, then the suffix.
DetectFile(f) ==
  LET sig == ReadExact(f, 0, 5)
      sfx == SuffixFromFile(f)
  IN  IF ~sig.ok
      THEN [res |-> Err("Io"), value |-> FALSE, cursor |-> sig.cursor,
            evs |-> <<ReadEv("detect", 0, 5)>>]
      ELSE [res |-> sfx.res,
            value |-> sfx.res = Ok /\ IsDfuSe(sig.buf, sfx.data),
            cursor |-> sfx.cursor,
            evs |-> <<ReadEv("detect", 0, 5), sfx.ev>>]

Detect ==
  /\ pc = "detect"
  /\ LET d == DetectFile(file)
     IN  /\ cursor' = d.cursor
         /\ log' = log \o d.evs
         /\ IF d.res # Ok THEN Fail(d.res)
            ELSE IF d.value
            THEN pc' = "content" /\ UNCHANGED <<result, content, suffix>>
            ELSE /\ pc' = "suffix"
                 /\ content' = Some(ContentPlain)
                 /\ UNCHANGED <<result, suffix>>
  /\ UNCHANGED <<file, parse_locals, op_locals>>

\* Content::from_file up to its loop: the size check and the prefix.
ContentFromFile ==
  /\ pc = "content"
  /\ IF Len(file) < PREFIX_LENGTH + 16
     THEN /\ Fail(Err("dfuse::InsufficientFileSize"))
          /\ cursor' = Len(file)
          /\ UNCHANGED <<log, parse_locals>>
     ELSE LET r == ReadExact(file, 0, PREFIX_LENGTH)
              data == PrefixFromBytes(r.buf)
          IN  /\ cursor' = r.cursor
              /\ log' = Append(log, ReadEv("Prefix", 0, PREFIX_LENGTH))
              /\ IF ~r.ok
                 THEN Fail(Err("Io")) /\ UNCHANGED parse_locals
                 ELSE IF data.szSignature # SigDfuSe
                 THEN Fail(Err("InvalidPrefixSignature")) /\ UNCHANGED parse_locals
                 ELSE /\ prefix' = Some(data)
                      /\ images' = <<>>
                      /\ file_pos' = PREFIX_LENGTH
                      /\ UNCHANGED <<target_prefix, image_elements, result, suffix>>
                      /\ IF data.bTargets = 0
                         THEN pc' = "suffix" /\ content' = Some(ContentDfuSe(data, <<>>))
                         ELSE pc' = "image" /\ UNCHANGED content
  /\ UNCHANGED <<file, op_locals>>

\* Mutant: the element loop stops one element early.
ElementsDoneEarly(tp, elements) == Len(elements) + 1 >= tp.dwNbElements

\* Whether the element loop of Image::from_file has run its count.
ElementsDone(tp, elements) == Len(elements) = tp.dwNbElements

\* Whether the image loop of Content::from_file has run its count.
ImagesDone(p, imgs) == Len(imgs) = p.bTargets

\* Image::from_file is through with its elements: the image is pushed, and
\* after the last image Content::from_file returns the content.
PushImage(tp, elements) ==
  LET imgs == Append(images, [target_prefix |-> tp, image_elements |-> elements])
  IN  /\ images' = imgs
      /\ target_prefix' = None
      /\ image_elements' = <<>>
      /\ IF ImagesDone(prefix.val, imgs)
         THEN pc' = "suffix" /\ content' = Some(ContentDfuSe(prefix.val, imgs))
         ELSE pc' = "image" /\ UNCHANGED content

\* TargetPrefix::from_file, at the start of Image::from_file.
TargetPrefixFromFile ==
  /\ pc = "image"
  /\ LET r == ReadExact(file, file_pos, TARGET_PREFIX_LENGTH)
         d == TargetPrefixFromBytes(r.buf)
     IN  /\ cursor' = r.cursor
         /\ log' = Append(log, ReadEv("TargetPrefix", file_pos, TARGET_PREFIX_LENGTH))
         /\ IF ~r.ok
            THEN /\ Fail(Err("Io"))
                 /\ UNCHANGED parse_locals
            ELSE /\ file_pos' = file_pos + TARGET_PREFIX_LENGTH
                 /\ UNCHANGED prefix
                 /\ IF d.panic
                    THEN Fail(Panic) /\ UNCHANGED <<images, target_prefix, image_elements>>
                    ELSE IF d.data.szSignature # SigTarget
                    THEN /\ Fail(Err("InvalidTargetPrefixSignature"))
                         /\ UNCHANGED <<images, target_prefix, image_elements>>
                    ELSE /\ UNCHANGED <<result, suffix>>
                         /\ IF ElementsDone(d.data, <<>>)
                            THEN PushImage(d.data, <<>>)
                            ELSE /\ target_prefix' = Some(d.data)
                                 /\ image_elements' = <<>>
                                 /\ pc' = "element"
                                 /\ UNCHANGED <<images, content>>
  /\ UNCHANGED <<file, op_locals>>

\* Mutant: the position is advanced past the descriptor only, not the payload.
ImageElementFromFileNoSkip ==
  /\ pc = "element"
  /\ LET r == ReadExact(file, file_pos, IMAGE_ELEMENT_LENGTH)
         data == ImageElementFromBytes(r.buf, file_pos + IMAGE_ELEMENT_LENGTH)
         elements == Append(image_elements, data)
     IN  /\ cursor' = r.cursor
         /\ log' = Append(log, ReadEv("ImageElement", file_pos, IMAGE_ELEMENT_LENGTH))
         /\ IF ~r.ok
            THEN Fail(Err("Io")) /\ UNCHANGED parse_locals
            ELSE /\ file_pos' = file_pos + IMAGE_ELEMENT_LENGTH
                 /\ UNCHANGED <<prefix, result, suffix>>
                 /\ IF ElementsDone(target_prefix.val, elements)
                    THEN PushImage(target_prefix.val, elements)
                    ELSE /\ image_elements' = elements
                         /\ pc' = "element"
                         /\ UNCHANGED <<images, target_prefix, content>>
  /\ UNCHANGED <<file, op_locals>>

\* ImageElement::from_file, in the loop of Image::from_file.
ImageElementFromFile ==
  /\ pc = "element"
  /\ LET r == ReadExact(file, file_pos, IMAGE_ELEMENT_LENGTH)
         data == ImageElementFromBytes(r.buf, file_pos + IMAGE_ELEMENT_LENGTH)
         elements == Append(image_elements, data)
     IN  /\ cursor' = r.cursor
         /\ log' = Append(log, ReadEv("ImageElement", file_pos, IMAGE_ELEMENT_LENGTH))
         /\ IF ~r.ok
            THEN Fail(Err("Io")) /\ UNCHANGED parse_locals
            ELSE /\ file_pos' = file_pos + IMAGE_ELEMENT_LENGTH + data.dwElementSize
                 /\ UNCHANGED <<prefix, result, suffix>>
                 /\ IF ElementsDone(target_prefix.val, elements)
                    THEN PushImage(target_prefix.val, elements)
                    ELSE /\ image_elements' = elements
                         /\ pc' = "element"
                         /\ UNCHANGED <<images, target_prefix, content>>
  /\ UNCHANGED <<file, op_locals>>

\* The last step of DfuFile::open: Suffix::from_file, then the DfuFile.
OpenSuffix ==
  /\ pc = "suffix"
  /\ LET s == SuffixFromFile(file)
     IN  /\ cursor' = s.cursor
         /\ log' = Append(log, s.ev)
         /\ IF s.res # Ok
            THEN /\ result' = s.res
                 /\ pc' = "failed"
                 /\ content' = None
                 /\ UNCHANGED suffix
            ELSE /\ suffix' = Some(s.data)
                 /\ result' = Ok
                 /\ pc' = "opened"
                 /\ UNCHANGED content
  /\ UNCHANGED <<file, parse_locals, op_locals>>

Open ==
  \/ OpenFile
  \/ Detect
  \/ ContentFromFile
  \/ TargetPrefixFromFile
  \/ ImageElementFromFile
  \/ OpenSuffix

(***************************************************************************)
(* DfuFile::calc_crc.                                                      *)
(***************************************************************************)
\* Mutant: the last four bytes are not left out.
ReadSizeWholeFile(file_size, pos) == Min(CHUNK_SIZE, file_size - pos)

\* The size of the next chunk: min(CHUNK_SIZE, file_size - 4 - file_pos) in
\* u64, where a negative difference wraps to a number above CHUNK_SIZE.
ReadSize(file_size, pos) ==
  IF file_size - 4 - pos < 0 THEN CHUNK_SIZE
  ELSE Min(CHUNK_SIZE, file_size - 4 - pos)

\* What calc_crc returns for the final accumulator.
CrcResult(acc) == W32Xor(acc, W32Ones)

\* calc_crc up to its loop: the file is measured and rewound.
CalcCrc ==
  /\ pc = "opened"
  /\ pc' = "calc_crc"
  /\ cursor' = 0
  /\ crc_file_pos' = 0
  /\ crc' = W32Zero
  /\ chunks' = <<>>
  /\ UNCHANGED <<file, content, suffix, result, log, parse_locals, ret>>

\* One turn of the loop of calc_crc: the next chunk is read at the cursor and
\* folded in, or the loop ends and the checksum is returned.
CalcCrcChunk ==
  /\ pc = "calc_crc"
  /\ LET read_size == ReadSize(Len(file), crc_file_pos)
         r == ReadExact(file, cursor, read_size)
     IN  IF read_size = 0
         THEN /\ ret' = [op |-> "calc_crc", args |-> <<>>, res |-> Ok,
                         value |-> CrcResult(crc)]
              /\ pc' = "returned"
              /\ UNCHANGED <<cursor, crc, crc_file_pos, chunks>>
         ELSE IF ~r.ok
         THEN /\ ret' = [op |-> "calc_crc", args |-> <<>>, res |-> Err("Io"),
                         value |-> W32Zero]
              /\ pc' = "returned"
              /\ cursor' = r.cursor
              /\ UNCHANGED <<crc, crc_file_pos, chunks>>
         ELSE /\ crc' = Crc32(r.buf, crc)
              /\ crc_file_pos' = crc_file_pos + read_size
              /\ cursor' = r.cursor
              /\ chunks' = Append(chunks, ReadEv("calc_crc", cursor, read_size))
              /\ UNCHANGED <<pc, ret>>
  /\ UNCHANGED <<file, content, suffix, result, log, parse_locals>>

(***************************************************************************)
(* dfuse::Content::find_image_by_alt.                                      *)
(***************************************************************************)
\* Mutant: the last match, not the first.
FindImageByAltLast(imgs, alt_setting) ==
  LET Matches(k) == imgs[k].target_prefix.bAlternateSetting = alt_setting
  IN  IF \E k \in 1..Len(imgs) : Matches(k)
      THEN CHOOSE k \in 1..Len(imgs) :
             Matches(k) /\ \A j \in (k + 1)..Len(imgs) : ~Matches(j)
      ELSE 0

\* The index of the image found, or 0 for None.
FindImageByAltIn(imgs, alt_setting) ==
  LET Matches(k) == imgs[k].target_prefix.bAlternateSetting = alt_setting
  IN  IF \E k \in 1..Len(imgs) : Matches(k)
      THEN CHOOSE k \in 1..Len(imgs) :
             Matches(k) /\ \A j \in 1..(k - 1) : ~Matches(j)
      ELSE 0

FindImageByAlt(alt_setting) ==
  /\ pc = "opened"
  /\ content.val.kind = "DfuSe"
  /\ ret' = [op |-> "find_image_by_alt", args |-> <<alt_setting>>, res |-> Ok,
             value |-> FindImageByAltIn(content.val.images, alt_setting)]
  /\ pc' = "returned"
  /\ UNCHANGED <<file, cursor, content, suffix, result, log, parse_locals,
                 crc, crc_file_pos, chunks>>

(***************************************************************************)
(* dfuse::ImageElement::read_at.                                           *)
(***************************************************************************)
\* The byte counts Read::read may return for a buffer of buflen bytes at
\* offset at: 0 at the end of the file or for an empty buffer, else at least
\* one byte and at most what the buffer and the file hold.
ReadCounts(f, at, buflen) ==
  LET avail == IF at >= Len(f) THEN 0 ELSE Len(f) - at
      most == Min(buflen, avail)
  IN  IF most = 0 THEN {0} ELSE 1..most

\* (self.dwElementSize - position) as usize: the u32 subtraction overflows
\* when position is past the element's size; a build with overflow checks
\* panics there, one without wraps around.
ElementRemaining(dwElementSize, position, overflow_checks) ==
  IF position > dwElementSize /\ overflow_checks
  THEN [panic |-> TRUE, value |-> W32Zero]
  ELSE [panic |-> FALSE,
        value |-> W32WrappingSub(ToW32(dwElementSize), ToW32(position))]

\* std::cmp::min(read_size, remaining), read_size being small.
ClipCount(read_size, remaining) ==
  IF W32Less(remaining, ToW32(read_size))
  THEN remaining.hi * 65536 + remaining.lo
  ELSE read_size

ReadAt(i, j, position, buflen, overflow_checks) ==
  /\ pc = "opened"
  /\ content.val.kind = "DfuSe"
  /\ i \in 1..Len(content.val.images)
  /\ j \in 1..Len(content.val.images[i].image_elements)
  /\ LET element == content.val.images[i].image_elements[j]
         at == element.data_position + position
     IN  \E read_size \in ReadCounts(file, at, buflen) :
           LET remaining == ElementRemaining(element.dwElementSize, position,
                                              overflow_checks)
           IN  /\ cursor' = at + read_size
               /\ ret' = [op |-> "read_at",
                          args |-> <<i, j, position, buflen, read_size>>,
                          res |-> IF remaining.panic THEN Panic ELSE Ok,
                          value |-> IF remaining.panic THEN 0
                                    ELSE ClipCount(read_size, remaining.value)]
  /\ pc' = "returned"
  /\ UNCHANGED <<file, content, suffix, result, log, parse_locals,
                 crc, crc_file_pos, chunks>>

\* The positions read_at is called with for element j of image i: the first
\* few, and those at which the read meets the end of the file.
Positions(i, j) ==
  LET element == content.val.images[i].image_elements[j]
      left == Len(file) - element.data_position
  IN  (0..MaxPosition) \cup {p \in {left - 1, left} : p >= 0}

\* The builds that differ for a call: with and without overflow checks when
\* the subtraction overflows, else one.
Builds(i, j, position) ==
  IF position > content.val.images[i].image_elements[j].dwElementSize
  THEN BOOLEAN ELSE {TRUE}

\* The caller has the result of the operation; the DfuFile is at rest again,
\* its file handle where the operation left it.
Return ==
  /\ pc = "returned"
  /\ pc' = "opened"
  /\ ret' = NoRet
  /\ crc' = W32Zero
  /\ crc_file_pos' = 0
  /\ chunks' = <<>>
  /\ UNCHANGED <<file, cursor, content, suffix, result, log, parse_locals>>

\* read_at on any element of the content.
ReadAtCall ==
  \E i \in 1..(MaxTargets + 1), j \in 1..(MaxElements + 2) :
    /\ pc = "opened"
    /\ content.val.kind = "DfuSe"
    /\ i <= Len(content.val.images)
    /\ j <= Len(content.val.images[i].image_elements)
    /\ \E position \in Positions(i, j), buflen \in 0..MaxBuf :
         \E overflow_checks \in Builds(i, j, position) :
           ReadAt(i, j, position, buflen, overflow_checks)

Operation ==
  \/ CalcCrc
  \/ CalcCrcChunk
  \/ \E alt_setting \in 0..(MaxAlt + 1) : FindImageByAlt(alt_setting)
  \/ ReadAtCall
  \/ Return

Next == Open \/ Operation
Spec == Init /\ [][Next]_vars

(***************************************************************************)
(* crc32::crc32 on its own: a buffer is fed to the engine in consecutive   *)
(* chunks, each call starting from the accumulator the previous returned.  *)
(***************************************************************************)
CrcBytes == {0, 1, 255}

RECURSIVE SeqsOfLen(_, _)
SeqsOfLen(S, n) ==
  IF n = 0 THEN {<<>>}
  ELSE {Append(q, x) : q \in SeqsOfLen(S, n - 1), x \in S}

CrcBuffers == UNION {SeqsOfLen(CrcBytes, n) : n \in 0..MaxCrcLen}

\* Initial accumulators: 0, 0xFFFFFFFF, 0x12345678.
CrcSeeds == {W32Zero, W32Ones, W32(4660, 22136)}

InitCrc ==
  \E f \in CrcBuffers, seed \in CrcSeeds :
    /\ file = f
    /\ cursor = 0
    /\ pc = "crc32"
    /\ file_pos = 0
    /\ prefix = None
    /\ images = <<>>
    /\ target_prefix = None
    /\ image_elements = <<>>
    /\ content = None
    /\ suffix = None
    /\ result = Pending
    /\ log = <<>>
    /\ crc = seed
    /\ crc_file_pos = 0
    /\ chunks = <<>>
    /\ ret = [op |-> "crc32", args |-> <<seed>>, res |-> Pending, value |-> 0]

\* crc = crc32(&buffer, crc) on the next n bytes.
Crc32Call(n) ==
  /\ pc = "crc32"
  /\ Len(chunks) < MaxCalls
  /\ crc_file_pos + n <= Len(file)
  /\ crc' = Crc32(SubSeq(file, crc_file_pos + 1, crc_file_pos + n), crc)
  /\ crc_file_pos' = crc_file_pos + n
  /\ chunks' = Append(chunks, ReadEv("crc32", crc_file_pos, n))
  /\ UNCHANGED <<file, cursor, pc, content, suffix, result, log, parse_locals, ret>>

NextCrc == \E n \in 0..MaxCrcLen : Crc32Call(n)
SpecCrc == InitCrc /\ [][NextCrc]_vars

(***************************************************************************)
(* TargetPrefix::from_bytes on its own: a 274-byte buffer is decoded.      *)
(***************************************************************************)
\* Lengths of the text that starts the name region.
NameTextLens == {0, 1, 4, NAME_MAX - 3, NAME_MAX - 2, NAME_MAX - 1}

\* What follows the text, m bytes long: a null byte and garbage, zeros, a
\* null byte and letters, letters, ill-formed bytes, or two-byte characters.
NameTail(kind, m) ==
  IF kind = "nul garbage" THEN <<0>> \o Bytes(m - 1, 255)
  ELSE IF kind = "zeros" THEN Bytes(m, 0)
  ELSE IF kind = "nul letters" THEN <<0>> \o Bytes(m - 1, 66)
  ELSE IF kind = "letters" THEN Bytes(m, 66)
  ELSE IF kind = "garbage" THEN Bytes(m, 255)
  ELSE [i \in 1..m |-> IF i % 2 = 1 THEN 195 ELSE 169]

NameRegions ==
  {Bytes(t, fill) \o NameTail(kind, NAME_MAX - t) :
     t \in NameTextLens, fill \in {65, 233, 255},
     kind \in {"nul garbage", "zeros", "nul letters", "letters", "garbage",
               "accents"}}

NameBuffers == {MkTargetPrefix(SigTarget, 1, r, 0, 0) : r \in NameRegions}

InitName == \E f \in NameBuffers : Start(f) /\ pc = "from_bytes"

TargetPrefixDecode ==
  /\ pc = "from_bytes"
  /\ LET d == TargetPrefixFromBytes(file)
     IN  ret' = [op |-> "TargetPrefix::from_bytes", args |-> <<>>,
                 res |-> IF d.panic THEN Panic ELSE Ok, value |-> d.data]
  /\ pc' = "returned"
  /\ UNCHANGED <<file, cursor, content, suffix, result, log, parse_locals,
                 crc, crc_file_pos, chunks>>

NextName == TargetPrefixDecode
SpecName == InitName /\ [][NextName]_vars

(***************************************************************************)
(* Suffix::from_file on its own: the last 16 bytes of a file are decoded.  *)
(***************************************************************************)
\* 16-bit field values and their encoding: 0, 1, 0x011A, 0x8000, 0xFFFF.
SuffixWords == {0, 1, DFUSE_BCD, 32768, 65535}

\* Signatures: "UFD", "DFU", "UFd", and "UF" with an ill-formed byte.
SuffixSignatures == {SigUFD, <<68, 70, 85>>, <<85, 70, 100>>, <<85, 70, 255>>}

\* bLength bytes and dwCRC bytes.
SuffixLengths == {0, SUFFIX_LENGTH, 255}
SuffixCrcs == {<<0, 0, 0, 0>>, <<1, 2, 3, 4>>, <<0, 0, 0, 128>>,
               <<255, 255, 255, 255>>}

\* Files: nothing or one byte, then a trailer.
SuffixFiles ==
  {body \o LE16(dev) \o LE16(prod) \o LE16(vend) \o LE16(bcd) \o sig
     \o <<len>> \o c :
     body \in {<<>>, <<7>>}, dev \in SuffixWords, prod \in SuffixWords,
     vend \in SuffixWords, bcd \in SuffixWords, sig \in SuffixSignatures,
     len \in SuffixLengths, c \in SuffixCrcs}

InitSuffix == \E f \in SuffixFiles : Start(f) /\ pc = "Suffix::from_file"

SuffixDecode ==
  /\ pc = "Suffix::from_file"
  /\ LET r == SuffixFromFile(file)
     IN  /\ suffix' = IF r.res = Ok THEN Some(r.data) ELSE None
         /\ ret' = [op |-> "Suffix::from_file", args |-> <<>>,
                    res |-> r.res, value |-> r.data]
         /\ cursor' = r.cursor
         /\ log' = Append(log, r.ev)
  /\ pc' = "returned"
  /\ UNCHANGED <<file, content, result, parse_locals, crc, crc_file_pos,
                 chunks>>

NextSuffix == SuffixDecode
SpecSuffix == InitSuffix /\ [][NextSuffix]_vars

(***************************************************************************)
(* Properties of DfuFile::open.                                            *)
(***************************************************************************)
\* The history holds a read by `who`.
HasRead(who) == \E k \in 1..Len(log) : log[k].who = who

\* DfuFile::open has gone past the size check / past detection.
PastSizeCheck == pc # "open"
PastDetect == pc \notin {"open", "detect"}

\* The three signature bytes of the trailer of a file of at least 16 bytes.
TrailerSignature == Slice(file, Len(file) - 8, Len(file) - 5)

\* The spec-version code in the trailer, read off the bytes.
TrailerBcdDFU ==
  file[Len(file) - 9] + 256 * file[Len(file) - 8]

\* C1: open on a file shorter than 16 bytes fails with InsufficientFileSize,
\* and it does so before anything is read: no detection, no signature check,
\* no read error, and no DfuFile.
C1_ShortFileIsRefused ==
  (Len(file) < 16 /\ PastSizeCheck) =>
    /\ pc = "failed"
    /\ result = Err("InsufficientFileSize")
    /\ log = <<>>
    /\ content = None
    /\ suffix = None

\* A 15-byte file that ends like a valid suffix has been refused.
C1_Witness ==
  /\ Len(file) = 15
  /\ Slice(file, 7, 10) = SigUFD
  /\ pc = "failed"
  /\ result = Err("InsufficientFileSize")

\* C2: for a file of at least 16 bytes with a valid suffix signature, open
\* takes the DfuSe branch exactly when the first five bytes are "DfuSe" and
\* bcdDFU is 0x011A; otherwise the content is Plain and neither a prefix nor
\* a target prefix nor an element is read.
TookDfuSeBranch ==
  \/ pc = "content"
  \/ HasRead("Prefix")
  \/ result = Err("dfuse::InsufficientFileSize")

C2_DetectNeedsBoth ==
  (Len(file) >= 16 /\ PastDetect /\ TrailerSignature = SigUFD) =>
    LET both == Slice(file, 0, 5) = SigDfuSe /\ TrailerBcdDFU = 282
    IN  /\ both <=> TookDfuSeBranch
        /\ ~both =>
             /\ content = Some(ContentPlain)
             /\ ~HasRead("Prefix")
             /\ ~HasRead("TargetPrefix")
             /\ ~HasRead("ImageElement")
             /\ result \in {Pending, Ok}

\* A file that starts with "DfuSe" but whose bcdDFU is not 0x011A has been
\* opened as Plain.
C2_Witness ==
  /\ pc = "opened"
  /\ Slice(file, 0, 5) = SigDfuSe
  /\ TrailerBcdDFU # 282
  /\ content = Some(ContentPlain)

\* C3: for a file of at least 16 bytes whose trailer signature is not "UFD",
\* open fails with InvalidSuffixSignature whatever else the file holds, and
\* returns nothing.
C3_BadSuffixSignature ==
  (Len(file) >= 16 /\ PastDetect /\ TrailerSignature # SigUFD) =>
    /\ pc = "failed"
    /\ result = Err("InvalidSuffixSignature")
    /\ content = None
    /\ suffix = None
    /\ ~HasRead("Prefix")

\* A file that starts with "DfuSe", carries bcdDFU 0x011A and images, and has
\* a wrong trailer signature has failed.
C3_Witness ==
  /\ pc = "failed"
  /\ result = Err("InvalidSuffixSignature")
  /\ Len(file) > 300
  /\ Slice(file, 0, 5) = SigDfuSe
  /\ TrailerBcdDFU = 282

(***************************************************************************)
(* Properties of the parsed content.                                       *)
(***************************************************************************)
\* The reads of target prefixes and of element descriptors, in order.
IsTargetRead(e) == e.who = "TargetPrefix"
IsElementRead(e) == e.who = "ImageElement"
TargetReads == SelectSeq(log, IsTargetRead)
ElementReads == SelectSeq(log, IsElementRead)

\* The little-endian u32 at 0-based offset at of the file, off the bytes.
RawU32(at) ==
  file[at + 1] + 256 * file[at + 2] + 65536 * file[at + 3]
    + 16777216 * file[at + 4]

\* The number of elements of the images before image k.
RECURSIVE ElementsBefore(_, _)
ElementsBefore(imgs, k) ==
  IF k <= 1 THEN 0
  ELSE ElementsBefore(imgs, k - 1) + Len(imgs[k - 1].image_elements)

\* open has returned a DfuFile with DfuSe content.
OpenedDfuSe == result = Ok /\ content.val.kind = "DfuSe"

\* C5: when parsing an extended file succeeds, the content holds exactly
\* bTargets images, image k being the k-th target prefix read, in file order,
\* and image k holds exactly the dwNbElements elements its own target prefix
\* declares, which are the element descriptors read after that target prefix
\* and before the next, in file order.
C5_ImagesAsDeclared ==
  OpenedDfuSe =>
    LET imgs == content.val.images
        hdr == TargetReads
        els == ElementReads
    IN  /\ Len(imgs) = file[11]
        /\ Len(hdr) = Len(imgs)
        /\ Len(els) = ElementsBefore(imgs, Len(imgs) + 1)
        /\ \A k \in 1..Len(imgs) :
             LET tp == imgs[k].target_prefix
                 at == hdr[k].at
                 base == ElementsBefore(imgs, k)
             IN  /\ k > 1 => hdr[k - 1].at < at
                 /\ tp.bAlternateSetting = file[at + 7]
                 /\ tp.dwNbElements = RawU32(at + 270)
                 /\ Len(imgs[k].image_elements) = RawU32(at + 270)
                 /\ \A j \in 1..Len(imgs[k].image_elements) :
                      LET e == imgs[k].image_elements[j]
                          rd == els[base + j]
                      IN  /\ e.data_position = rd.at + 8
                          /\ e.dwElementAddress = RawU32(rd.at)
                          /\ e.dwElementSize = RawU32(rd.at + 4)
                          /\ at < rd.at
                          /\ j > 1 => els[base + j - 1].at < rd.at
                          /\ k < Len(imgs) => rd.at < hdr[k + 1].at

\* A file of two images has been opened, the first with one element and the
\* second with two.
C5_Witness ==
  /\ pc = "opened"
  /\ content.val.kind = "DfuSe"
  /\ Len(content.val.images) = 2
  /\ Len(content.val.images[1].image_elements) = 1
  /\ Len(content.val.images[2].image_elements) = 2

\* C9: find_image_by_alt(a) returns the first image, in parsed order, whose
\* alternate setting is a, also when several images have it, and None (here
\* 0) as a normal result when no image has it; the content is what open
\* parsed, unchanged.
C9_FindFirstByAlt ==
  (pc = "returned" /\ ret.op = "find_image_by_alt") =>
    LET imgs == content.val.images
        hits == {k \in 1..Len(imgs) :
                   imgs[k].target_prefix.bAlternateSetting = ret.args[1]}
    IN  /\ ret.res = Ok
        /\ IF hits = {} THEN ret.value = 0
           ELSE ret.value \in hits /\ \A h \in hits : ret.value <= h
        /\ content = Some(ContentDfuSe(prefix.val, images))

\* Two images share the alternate setting looked up, and the first is found.
C9_Witness ==
  /\ pc = "returned"
  /\ ret.op = "find_image_by_alt"
  /\ Len(content.val.images) = 2
  /\ content.val.images[1].target_prefix.bAlternateSetting = ret.args[1]
  /\ content.val.images[2].target_prefix.bAlternateSetting = ret.args[1]
  /\ ret.value = 1

(***************************************************************************)
(* Properties of read_at.                                                  *)
(***************************************************************************)
\* C4: read_at returns a count that is at most the element's size minus the
\* position (zero when the position is at or past the element's end) and at
\* most the buffer's capacity, whatever position and buffer it is called
\* with.
C4_ReadAtWithinElement ==
  (pc = "returned" /\ ret.op = "read_at") =>
    LET element == content.val.images[ret.args[1]].image_elements[ret.args[2]]
        position == ret.args[3]
        buflen == ret.args[4]
        left == IF position >= element.dwElementSize THEN 0
                ELSE element.dwElementSize - position
    IN  /\ ret.res = Ok
        /\ ret.value <= left
        /\ ret.value <= buflen

(***************************************************************************)
(* Properties of calc_crc.                                                 *)
(***************************************************************************)
\* The accumulator after the first k chunks read, starting from 0.
RECURSIVE AccAfter(_)
AccAfter(k) ==
  IF k = 0 THEN W32(0, 0)
  ELSE Crc32(SubSeq(file, chunks[k].at + 1, chunks[k].at + chunks[k].n),
             AccAfter(k - 1))

\* The chunks read so far are consecutive from offset 0, of 1..1024 bytes,
\* and end at or before the last four bytes.
ChunksInOrder ==
  /\ \A k \in 1..Len(chunks) :
       /\ chunks[k].at = (IF k = 1 THEN 0 ELSE chunks[k - 1].at + chunks[k - 1].n)
       /\ chunks[k].n >= 1
       /\ chunks[k].n <= 1024
       /\ chunks[k].at + chunks[k].n <= Len(file) - 4
  /\ Len(chunks) * 1024 < Len(file) - 4 + 1024

\* C6: calc_crc on a file of L >= 16 bytes folds into the accumulator, from
\* 0, exactly the bytes at offsets 0 .. L-4, each once and in file order, in
\* consecutive chunks of at most 1024 bytes, in a bounded number of turns,
\* and returns the final accumulator with every bit flipped; the last four
\* bytes are never folded in.
C6_CalcCrcBody ==
  /\ pc = "calc_crc" => ChunksInOrder /\ crc = AccAfter(Len(chunks))
  /\ (pc = "returned" /\ ret.op = "calc_crc") =>
       /\ ret.res = Ok
       /\ ChunksInOrder
       /\ IF Len(file) = 4 THEN chunks = <<>>
          ELSE /\ chunks # <<>>
               /\ chunks[Len(chunks)].at + chunks[Len(chunks)].n = Len(file) - 4
       /\ crc = AccAfter(Len(chunks))
       /\ ret.value.hi = 65535 - crc.hi
       /\ ret.value.lo = 65535 - crc.lo

\* calc_crc has returned after a full chunk and a shorter last one.
C6_Witness ==
  /\ pc = "returned"
  /\ ret.op = "calc_crc"
  /\ Len(chunks) >= 2
  /\ chunks[1].n = 1024
  /\ chunks[Len(chunks)].n < 1024

(***************************************************************************)
(* Properties of the target prefix signature check.                        *)
(***************************************************************************)
\* C10: when a target prefix that is reached and read in full does not start
\* with "Target", open fails there with InvalidTargetPrefixSignature: that
\* read is the last one, and no DfuFile or content is returned.
C10_BadTargetSignature ==
  \A k \in 1..Len(log) :
    (/\ log[k].who = "TargetPrefix"
     /\ log[k].at + 274 <= Len(file)
     /\ Slice(file, log[k].at, log[k].at + 6) # <<84, 97, 114, 103, 101, 116>>) =>
      /\ k = Len(log)
      /\ pc = "failed"
      /\ result = Err("InvalidTargetPrefixSignature")
      /\ content = None
      /\ suffix = None

(***************************************************************************)
(* Properties of the CRC32 engine.                                         *)
(***************************************************************************)
\* C7: feeding a byte sequence to crc32 in consecutive chunks, each call
\* starting from the accumulator the previous call returned, yields the
\* accumulator of a single call over the bytes fed so far, however the
\* sequence is split.
C7_ChunkIndependent ==
  pc = "crc32" =>
    crc = Crc32(SubSeq(file, 1, crc_file_pos), ret.args[1])

\* A four-byte buffer has been fed in three chunks of different sizes.
C7_Witness ==
  /\ pc = "crc32"
  /\ Len(file) = 4
  /\ crc_file_pos = 4
  /\ Len(chunks) = 3
  /\ chunks[1].n = 1
  /\ chunks[2].n = 2
  /\ file[1] # file[4]

(***************************************************************************)
(* Properties of the target name.                                          *)
(***************************************************************************)
\* The name region of the buffer decoded, and the region before its first
\* null byte.
NameBytes == Slice(file, 11, 266)
HasNul(b) == \E k \in 1..Len(b) : b[k] = 0
BeforeNul(b) ==
  SubSeq(b, 1, (CHOOSE k \in 1..Len(b) :
                  b[k] = 0 /\ \A j \in 1..(k - 1) : b[j] # 0) - 1)

\* C8: from_bytes decodes the name as the text of the bytes before the first
\* null byte of the name region, whatever follows it, and, when the region
\* has no null byte, succeeds with the text of all 255 bytes.
C8_TargetName ==
  (pc = "returned" /\ ret.op = "TargetPrefix::from_bytes") =>
    /\ ret.res = Ok
    /\ ret.value.szTargetName =
         FromUtf8Lossy(IF HasNul(NameBytes) THEN BeforeNul(NameBytes)
                       ELSE NameBytes)

(***************************************************************************)
(* Properties of the suffix decoding.                                      *)
(***************************************************************************)
\* The last 16 bytes of the file, and the encoding of a decoded suffix:
\* each integer little-endian, the signature as its UTF-8 bytes.
Trailer == SubSeq(file, Len(file) - SUFFIX_LENGTH + 1, Len(file))
W32ToLe(w) == LE16(w.lo) \o LE16(w.hi)
SuffixToBytes(d) ==
  LE16(d.bcdDevice) \o LE16(d.idProduct) \o LE16(d.idVendor) \o LE16(d.bcdDFU)
    \o d.ucDFUSignature \o <<d.bLength>> \o W32ToLe(d.dwCRC)

\* C11: for every trailer whose bytes 8..11 are "UFD", Suffix::from_file
\* succeeds; bcdDevice, idProduct, idVendor and bcdDFU are the little-endian
\* 16-bit values at offsets 0, 2, 4 and 6, bLength is byte 11, dwCRC is the
\* little-endian 32-bit value at offsets 12..16, and encoding the decoded
\* fields again gives the same 16 bytes.
C11_SuffixRoundTrip ==
  (/\ pc = "returned"
   /\ ret.op = "Suffix::from_file"
   /\ SubSeq(Trailer, 9, 11) = <<85, 70, 68>>) =>
    /\ ret.res = Ok
    /\ ret.value.bcdDevice = Trailer[1] + 256 * Trailer[2]
    /\ ret.value.idProduct = Trailer[3] + 256 * Trailer[4]
    /\ ret.value.idVendor = Trailer[5] + 256 * Trailer[6]
    /\ ret.value.bcdDFU = Trailer[7] + 256 * Trailer[8]
    /\ ret.value.bLength = Trailer[12]
    /\ ret.value.dwCRC.lo = Trailer[13] + 256 * Trailer[14]
    /\ ret.value.dwCRC.hi = Trailer[15] + 256 * Trailer[16]
    /\ SuffixToBytes(ret.value) = Trailer

\* A trailer with pairwise different fields, high bits set, after a body byte
\* has been decoded.
C11_Witness ==
  /\ pc = "returned"
  /\ ret.op = "Suffix::from_file"
  /\ ret.res = Ok
  /\ Len(file) = SUFFIX_LENGTH + 1
  /\ SubSeq(Trailer, 1, 8) = <<0, 128, 1, 0, 255, 255, 26, 1>>
  /\ SubSeq(Trailer, 12, 16) = <<255, 0, 0, 0, 128>>
  /\ suffix = Some(ret.value)

(***************************************************************************)
(* Properties of the position threaded through the DfuSe parsing.          *)
(***************************************************************************)
\* The reads of target prefixes and element descriptors, in the order made.
IsParseRead(e) == IsTargetRead(e) \/ IsElementRead(e)
ParseReads == SelectSeq(log, IsParseRead)

\* The length of the record read by e, off the bytes of the file: a target
\* prefix, or an element descriptor with the payload it declares.
RecordLength(e) ==
  IF IsTargetRead(e) THEN 274 ELSE 8 + RawU32(e.at + 4)

\* The length of the first k records read.
RECURSIVE RecordsLength(_, _)
RecordsLength(rd, k) ==
  IF k = 0 THEN 0 ELSE RecordsLength(rd, k - 1) + RecordLength(rd[k])

\* The elements parsed so far, those of the image in progress last.
RECURSIVE ElementsOf(_, _)
ElementsOf(imgs, k) ==
  IF k = 0 THEN <<>> ELSE ElementsOf(imgs, k - 1) \o imgs[k].image_elements
ParsedElements == ElementsOf(images, Len(images)) \o image_elements

\* The target prefixes parsed so far, that of the image in progress included.
ParsedHeaders == Len(images) + (IF target_prefix = None THEN 0 ELSE 1)

\* The sum of 8 + dwElementSize over the first k elements.
RECURSIVE ElementsLength(_, _)
ElementsLength(els, k) ==
  IF k = 0 THEN 0
  ELSE ElementsLength(els, k - 1) + 8 + els[k].dwElementSize

\* The DfuSe parsing has begun and has not failed.
Parsing ==
  /\ prefix # None
  /\ pc \in {"image", "element", "suffix", "opened", "calc_crc", "returned"}

\* C12: the position starts at 11; every target prefix is read at the
\* position and advances it by 274; every element descriptor is read (8
\* bytes) at the position, records data_position = that position + 8 and
\* advances it by 8 + dwElementSize.  So every record starts where the one
\* before ended, the positions read never decrease, and the position is
\* 11 + 274 * (headers parsed) + the sum of 8 + size over the elements parsed.
C12_CursorThreading ==
  Parsing =>
    LET rd == ParseReads
        els == ParsedElements
        er == ElementReads
    IN  /\ \A k \in 1..Len(rd) :
             /\ rd[k].at = 11 + RecordsLength(rd, k - 1)
             /\ rd[k].n = IF IsTargetRead(rd[k]) THEN 274 ELSE 8
             /\ k > 1 => rd[k - 1].at <= rd[k].at
        /\ file_pos = 11 + RecordsLength(rd, Len(rd))
        /\ Len(TargetReads) = ParsedHeaders
        /\ Len(er) = Len(els)
        /\ \A j \in 1..Len(els) :
             /\ els[j].data_position = er[j].at + 8
             /\ els[j].dwElementSize = RawU32(er[j].at + 4)
        /\ file_pos = 11 + 274 * ParsedHeaders + ElementsLength(els, Len(els))

\* Two target prefixes and three elements have been parsed, with payloads of
\* 3, 0 and 2 bytes skipped.
C12_Witness ==
  /\ pc = "suffix"
  /\ Len(images) = 2
  /\ Len(images[1].image_elements) = 1
  /\ Len(images[2].image_elements) = 2
  /\ images[1].image_elements[1].dwElementSize = 3
  /\ images[2].image_elements[2].dwElementSize = 2
  /\ images[2].image_elements[2].data_position = 11 + 2 * 274 + 3 * 8 + 3
  /\ file_pos = 11 + 2 * 274 + 3 * 8 + 5
====
